---- MODULE Spec2Model ----
(***************************************************************************)
(* SolarPunk Alpha Bot: the profit redistribution engine                   *)
(* (src/redistributor/donation_engine.py), the trade executor              *)
(* (src/trader/trade_executor.py), the public ledger                       *)
(* (src/ledger/public_ledger.py), the analyzer                             *)
(* (src/analyzer/ai_analyzer.py), the market scanner                       *)
(* (src/scanner/market_scanner.py) and the orchestrator (src/main.py).     *)
(* Each component has a specification of its own that calls its            *)
(* operations on inputs from small sets; BotSpec runs the orchestrator     *)
(* over the components.                                                    *)
(*                                                                         *)
(* Money is counted in cents (an integer n stands for n/100 dollars), so   *)
(* that quantize(Decimal('0.01'), ROUND_DOWN) is integer division that     *)
(* truncates toward zero.  Percentages are the integers of the             *)
(* configuration.  The engine computes its products and quotients in       *)
(* binary64 before it quantizes; where the binary64 result of an exact     *)
(* cent value falls just below that value the truncation yields one cent   *)
(* less, and the operand triples of the model's domain where this happens  *)
(* are listed in SplitShortfall and OrgShortfall.                          *)
(*                                                                         *)
(* Python dictionaries are objects: the configuration holds a reference    *)
(* to its 'split' dictionary.  heap maps object identities to the split    *)
(* dictionaries, and a value that is a reference is an index into heap.    *)
(* Time-derived fields (id, timestamp, tx_hash) are left out.              *)
(***************************************************************************)
EXTENDS Integers, Sequences, FiniteSets, TLC

VARIABLES heap, config, donation_history, last_call, ncalls,
          trader, analyzer, scanner, ledger, bot

vars == <<heap, config, donation_history, last_call, ncalls,
          trader, analyzer, scanner, ledger, bot>>

\* The objects SolarAlphaBot.__init__ builds next to the engine.
components == <<trader, analyzer, scanner, ledger, bot>>

-----------------------------------------------------------------------------
(* Bounds of the model *)

MaxCalls == 2

MaxObjects == 2

\* Days the executor's clock moves on.
MaxDay == 1

-----------------------------------------------------------------------------
(* Input domains *)

Split(c, y, n) == [crisis |-> c, you |-> y, network |-> n]

SplitChoices ==
    { Split(50, 30, 20), Split(40, 40, 40), Split(0, 0, 0),
      Split(50, -50, 0), Split(15, 30, 55), Split(150, -25, -25) }

Org(name, pct) == [name |-> name, percentage |-> pct]

OrgChoices ==
    { <<>>,
      <<Org("A", 100)>>,
      <<Org("A", 75), Org("B", 25), Org("C", 0)>>,
      <<Org("A", 50), Org("B", -50)>>,
      <<Org("A", 150), Org("B", -50)>> }

MinDonationChoices == {0, 100}

WalletChoices == {"", "0xYOU"}

FundChoices == {"", "0xFUND"}

ProfitChoices == {-500, 0, 3, 100, 3380, 20000}

-----------------------------------------------------------------------------
(* Arithmetic *)

Abs(x) == IF x < 0 THEN -x ELSE x

\* Decimal.quantize(Decimal('0.01'), rounding=ROUND_DOWN) of num/den dollars
\* counted in cents: the quotient truncated toward zero.
TruncDiv(num, den) ==
    IF (num >= 0) = (den > 0)
    THEN Abs(num) \div Abs(den)
    ELSE -(Abs(num) \div Abs(den))

\* One cent closer to zero (never past zero).
TowardZero(x) == IF x > 0 THEN x - 1 ELSE IF x < 0 THEN x + 1 ELSE 0

\* <<profit, percent, total>> for which the binary64 value of
\* profit * percent / 100 (total = 100) or of
\* profit * ((percent / total) * 100) / 100 (total # 100) prints below the
\* exact cent value it stands for.
SplitShortfall ==
    { <<3, 40, 120>>, <<3380, 15, 100>>, <<3380, 30, 100>>, <<3380, 55, 100>> }

\* <<amount, org_percent, total_percent>> for which the binary64 value of
\* amount * (org_percent / total_percent) prints below the exact cent value.
OrgShortfall == { <<1690, 150, 100>> }

\* amounts[key] after "Round to 2 decimal places": total is the sum of the
\* three percentages, which the caller has found to be non-zero when it is
\* not 100.
BucketAmount(profit, percent, total) ==
    LET exact == TruncDiv(profit * percent, total)
    IN  IF <<profit, percent, total>> \in SplitShortfall
        THEN TowardZero(exact) ELSE exact

\* org_amount after quantize.
OrgAmount(amount, org_percent, total_percent) ==
    LET exact == TruncDiv(amount * org_percent, total_percent)
    IN  IF <<amount, org_percent, total_percent>> \in OrgShortfall
        THEN TowardZero(exact) ELSE exact

-----------------------------------------------------------------------------
(* Results of a call: a returned value or a raised exception *)

Return(v) == [raised |-> "", value |-> v]

Raise(e) == [raised |-> e, value |-> <<>>]

\* A Python dict {} is the empty sequence, a populated one a 1-element
\* sequence holding its fields.
EmptyDict == <<>>

-----------------------------------------------------------------------------
(* DonationEngine *)

execute_donation(distribution) == [status |-> "CONFIRMED"]

RECURSIVE SumPercent(_, _)
SumPercent(orgs, i) ==
    IF i > Len(orgs) THEN 0 ELSE orgs[i].percentage + SumPercent(orgs, i + 1)

\* The for loop of distribute_to_crisis_orgs from organisation i on.
RECURSIVE crisis_loop(_, _, _)
crisis_loop(cfg, amount, i) ==
    LET orgs == cfg.crisis_orgs
        total_percent == SumPercent(orgs, 1)
    IN  IF i > Len(orgs) THEN Return(<<>>)
        ELSE LET org_percent == orgs[i].percentage
             IN  IF org_percent <= 0 THEN crisis_loop(cfg, amount, i + 1)
                 ELSE IF total_percent = 0 THEN Raise("ZeroDivisionError")
                 ELSE LET org_amount == OrgAmount(amount, org_percent, total_percent)
                          pending == [organization |-> orgs[i].name,
                                      amount |-> org_amount,
                                      status |-> "PENDING"]
                          distribution ==
                              IF cfg.batch_donations
                              THEN [pending EXCEPT !.status = "BATCHED"]
                              ELSE [pending EXCEPT
                                      !.status = execute_donation(pending).status]
                          rest == crisis_loop(cfg, amount, i + 1)
                      IN  IF org_amount < cfg.min_donation THEN rest
                          ELSE IF rest.raised # "" THEN rest
                          ELSE Return(<<distribution>> \o rest.value)

distribute_to_crisis_orgs(cfg, amount) ==
    IF cfg.crisis_orgs = <<>> THEN Return(<<>>)
    ELSE crisis_loop(cfg, amount, 1)

distribute_to_your_wallet_pending(cfg, amount) ==
    IF cfg.your_wallet = "" THEN EmptyDict
    ELSE << [recipient |-> "Your Wallet", amount |-> amount,
             status |-> "PENDING"] >>

distribute_to_your_wallet(cfg, amount) ==
    IF cfg.your_wallet = "" THEN EmptyDict
    ELSE << [recipient |-> "Your Wallet", amount |-> amount,
             status |-> "SIMULATED"] >>

distribute_to_network(cfg, amount) ==
    IF cfg.network_fund = "" THEN EmptyDict
    ELSE << [recipient |-> "SolarPunk Network Fund", amount |-> amount,
             status |-> "SIMULATED"] >>

\* distributions is a record whose keys field lists the keys the Python
\* dict has ({} has none).
NoDistributions == [keys |-> {}, crisis |-> <<>>, you |-> EmptyDict,
                    network |-> EmptyDict]

create_distribution_record(cfg, profit, distributions) ==
    [ total_profit |-> profit,
      distributions |-> distributions,
      config_used |->
        [ split |-> cfg.split,
          crisis_orgs |-> [i \in 1..Len(cfg.crisis_orgs) |->
                             [name |-> cfg.crisis_orgs[i].name,
                              percentage |-> cfg.crisis_orgs[i].percentage]] ] ]

store_in_history_dropped(history, distribution) == history

\* "Store in history" (line 90).
store_in_history(history, distribution) == Append(history, distribution)

\* The early return of distribute for a profit that is not positive.
no_profit_record(cfg, history, profit) ==
    [raised |-> "",
     value |-> create_distribution_record(cfg, profit, NoDistributions),
     donation_history |-> history, amounts |-> <<>>]

\* distribute from "Get distribution configuration" on.
distribute_payout(cfg, split_config, history, profit) ==
    LET total == split_config.crisis + split_config.you + split_config.network
    IN  IF total # 100 /\ total = 0
        THEN [raised |-> "ZeroDivisionError", value |-> <<>>,
              donation_history |-> history, amounts |-> <<>>]
        ELSE
        LET amounts == [key \in {"crisis", "you", "network"} |->
                          BucketAmount(profit, split_config[key], total)]
            crisis_distributions ==
                distribute_to_crisis_orgs(cfg, amounts["crisis"])
        IN  IF crisis_distributions.raised # ""
            THEN [raised |-> crisis_distributions.raised, value |-> <<>>,
                  donation_history |-> history, amounts |-> <<>>]
            ELSE
            LET distribution ==
                    create_distribution_record(cfg, profit,
                        [keys |-> {"crisis", "you", "network"},
                         crisis |-> crisis_distributions.value,
                         you |-> distribute_to_your_wallet(cfg, amounts["you"]),
                         network |-> distribute_to_network(cfg, amounts["network"])])
            IN  [raised |-> "", value |-> distribution,
                 donation_history |-> store_in_history(history, distribution),
                 amounts |-> amounts]

distribute_zero_profit_paid(cfg, split_config, history, profit) ==
    IF profit < 0
    THEN no_profit_record(cfg, history, profit)
    ELSE distribute_payout(cfg, split_config, history, profit)

\* distribute(profit) on an engine whose config is cfg, whose split
\* dictionary is split_config and whose donation_history is history:
\* what it raises or returns, the donation_history it leaves, and the
\* bucket amounts it writes to the log (line 92) when it gets that far.
distribute(cfg, split_config, history, profit) ==
    IF profit <= 0
    THEN no_profit_record(cfg, history, profit)
    ELSE distribute_payout(cfg, split_config, history, profit)

-----------------------------------------------------------------------------
(* TradeExecutor (src/trader/trade_executor.py)                            *)
(*                                                                         *)
(* Position values are counted in mills (n stands for n/1000 dollars),     *)
(* quantities in millionths of a unit, prices in whole dollars, the        *)
(* suggested position size in percent and the confidence in tenths, so    *)
(* that portfolio * size * confidence is the position value in mills and   *)
(* quantize(Decimal('0.000001'), ROUND_DOWN) is truncating division.       *)
(* The trade's id, timestamp, metadata and simulated fill price are left  *)
(* out; the date of the timestamp is kept as a day number.                 *)

PortfolioChoices == {-1000, 0, 1000}

PositionSizeChoices == {5, 10}

ConfidenceChoices == 0 .. 10

PriceChoices == {-1, 0, 1, 3, 7}

MarketTypes == {"crypto", "prediction"}

MaxPositionChoices == {20, 100}

Symbols == {"BTC-USD", "PI:1:2"}

\* 'PI:' in symbol or 'PM:' in symbol
IsPredictionSymbol(symbol) == symbol \in {"PI:1:2"}

Opportunity(symbol, market_type, price) ==
    [symbol |-> symbol, market_type |-> market_type, current_price |-> price]

Analysis(recommendation, confidence, position_size, ethical_override) ==
    [recommendation |-> recommendation, confidence |-> confidence,
     position_size |-> position_size, ethical_override |-> ethical_override]

Min(a, b) == IF a <= b THEN a ELSE b

\* <<portfolio, size, confidence, cap, price, market>> for which the
\* binary64 quotient position_value / price lies just inside the exact
\* quotient, a whole number of quantity units: 0.05 * 0.7 is
\* 0.034999999999999996 in binary64, so 1000 * 0.05 * 0.7 / 1 is
\* 34.99999999999999 and truncates to 34.99.
SizerShortfall ==
    { t \in {-1000, 1000} \X {5, 10} \X {7} \X {20, 100} \X {1, 7}
            \X MarketTypes :
        t[1] * t[2] * t[3] < t[4] * 1000 }

calculate_trade_parameters(cfg, portfolio_value, opportunity, analysis) ==
    LET suggested_size == analysis.position_size
        confidence == analysis.confidence
        adjusted_size == suggested_size * confidence
        max_position == cfg.max_position_size * 1000
        position_value == Min(portfolio_value * adjusted_size, max_position)
        price == opportunity.current_price
        unit == IF opportunity.market_type = "crypto" THEN 1 ELSE 10000
        units == IF price > 0
                 THEN TruncDiv(position_value * 1000, price * unit)
                 ELSE 0
        quantized ==
            IF <<portfolio_value, suggested_size, confidence,
                 cfg.max_position_size, price, opportunity.market_type>>
               \in SizerShortfall
            THEN TowardZero(units)
            ELSE units
    IN  [position_value |-> position_value,
         quantity |-> quantized * unit,
         percentage_of_portfolio |-> adjusted_size,
         confidence_multiplier |-> confidence]

\* self.positions and self.trade_history are empty after __init__; mode is
\* config['bot']['mode'] and exchanges holds the exchanges init_exchanges
\* could connect.  portfolio_value is what state.get_portfolio_value()
\* answers and day the date datetime.now() answers.
TradeExecutor_init(mode, exchanges, portfolio_value) ==
    [mode |-> mode, exchanges |-> exchanges,
     positions |-> [s \in Symbols |-> 0],
     trade_history |-> <<>>, portfolio_value |-> portfolio_value, day |-> 0]

\* self.positions.get(symbol, 0): a symbol without an entry counts as 0, and
\* update_position gives it the entry 0 before it adds, so positions is kept
\* as a function of every symbol.
PositionOf(positions, symbol) == positions[symbol]

RECURSIVE SumAbs(_, _)
SumAbs(positions, symbols) ==
    IF symbols = {} THEN 0
    ELSE LET s == CHOOSE x \in symbols : TRUE
         IN  Abs(positions[s]) + SumAbs(positions, symbols \ {s})

today_trades(t) ==
    { i \in 1 .. Len(t.trade_history) :
        /\ t.trade_history[i].day = t.day
        /\ t.trade_history[i].status = "EXECUTED" }

\* can_trade without the test of the day's trades.
can_trade_no_daily_limit(cfg, t, opportunity, analysis) ==
    /\ analysis.recommendation # "HOLD"
    /\ ~(analysis.confidence < 5)
    /\ ~analysis.ethical_override
    /\ ~(Abs(PositionOf(t.positions, opportunity.symbol))
            >= cfg.max_position_size * 1000000)
    /\ ~(SumAbs(t.positions, DOMAIN t.positions)
            >= cfg.max_total_exposure * 1000000)

can_trade(cfg, t, opportunity, analysis) ==
    /\ analysis.recommendation # "HOLD"
    /\ ~(analysis.confidence < 5)
    /\ ~analysis.ethical_override
    /\ ~(Abs(PositionOf(t.positions, opportunity.symbol))
            >= cfg.max_position_size * 1000000)
    /\ ~(Cardinality(today_trades(t)) >= cfg.max_daily_trades)
    /\ ~(SumAbs(t.positions, DOMAIN t.positions)
            >= cfg.max_total_exposure * 1000000)

get_exchange_for_symbol(t, symbol) ==
    IF IsPredictionSymbol(symbol) THEN "none"
    ELSE IF "binance" \in t.exchanges THEN "binance" ELSE "none"

\* order_ok: whether the exchange's market order goes through.
execute_real_trade(t, trade, order_ok) ==
    IF get_exchange_for_symbol(t, trade.symbol) = "none" \/ ~order_ok
    THEN [trade EXCEPT !.status = "CANCELLED"]
    ELSE [trade EXCEPT !.status = "EXECUTED"]

execute_paper_trade(trade) == [trade EXCEPT !.status = "EXECUTED"]

execute_simulation_trade(trade) == [trade EXCEPT !.status = "EXECUTED"]

update_position(positions, trade) ==
    LET old == PositionOf(positions, trade.symbol)
        new == IF trade.type = "BUY" THEN old + trade.quantity
               ELSE old - trade.quantity
    IN  [positions EXCEPT ![trade.symbol] = new]

None == [none |-> TRUE]

\* TradeExecutor.execute: the executor after the call and the value returned.
\* can_trade reads the date when it counts today's trades; the trade's
\* timestamp is read afterwards, and stamp_day is the day it falls on.
execute_at(cfg, t, opportunity, analysis, order_ok, stamp_day) ==
    IF ~can_trade(cfg, t, opportunity, analysis)
    THEN [trader |-> t, value |-> None]
    ELSE
      LET trade_params == calculate_trade_parameters(cfg, t.portfolio_value,
                                                     opportunity, analysis)
          trade == [symbol |-> opportunity.symbol,
                    type |-> analysis.recommendation,
                    quantity |-> trade_params.quantity,
                    status |-> "PENDING",
                    day |-> stamp_day,
                    processed |-> FALSE]
          executed_trade ==
              IF t.mode = "paper" THEN execute_paper_trade(trade)
              ELSE IF t.mode = "real"
                   THEN execute_real_trade(t, trade, order_ok)
                   ELSE execute_simulation_trade(trade)
      IN  [trader |-> [t EXCEPT
                        !.trade_history = Append(@, executed_trade),
                        !.positions = update_position(@, executed_trade)],
           value |-> executed_trade]

\* A call of execute within one day.
execute(cfg, t, opportunity, analysis, order_ok) ==
    execute_at(cfg, t, opportunity, analysis, order_ok, t.day)

\* TradeExecutor.close_position: the value returned.  The closing trade is
\* executed in paper and real mode and the method ends without a return in
\* simulation mode; it calls neither update_position nor
\* trade_history.append, so the executor is as before.
close_position(t, symbol, order_ok) ==
    IF PositionOf(t.positions, symbol) = 0 THEN None
    ELSE LET closing_trade ==
                 [symbol |-> symbol,
                  type |-> IF PositionOf(t.positions, symbol) > 0
                           THEN "SELL" ELSE "BUY",
                  quantity |-> Abs(PositionOf(t.positions, symbol)),
                  status |-> "PENDING",
                  day |-> t.day,
                  processed |-> FALSE]
         IN  IF t.mode = "paper" THEN execute_paper_trade(closing_trade)
             ELSE IF t.mode = "real"
                  THEN execute_real_trade(t, closing_trade, order_ok)
                  ELSE None

\* get_completed_trades: the trades of the history, in order, that are
\* EXECUTED and whose metadata has no true 'processed' entry.
get_completed_trades(t) ==
    SelectSeq(t.trade_history,
              LAMBDA tr : tr.status = "EXECUTED" /\ ~tr.processed)

-----------------------------------------------------------------------------
(* The other components as their constructors leave them *)

\* AIAnalyzer.__init__: no model is loaded yet.
AIAnalyzer_init == [model |-> "none"]

\* MarketScanner.__init__: an empty cache.
MarketScanner_init == [cache |-> {}]

\* PublicLedger.__init__ with the stores empty.
PublicLedger_init(ledger_type) ==
    [ledger_type |-> ledger_type, google_sheets |-> <<>>, sqlite |-> <<>>,
     csv |-> <<>>]

\* state.last_cycle_time when no cycle time is stored.
NoneTime == -1

\* SolarAlphaBot.__init__.  pc is the place of the main thread, found the
\* opportunities of the cycle in flight, analyses the number of them
\* analyzed so far and error the text of the exception being handled; now
\* is the wall clock and starts the clock at each call of run_cycle;
\* signalled tells that handle_shutdown has run; last_cycle_time is
\* state.last_cycle_time; in_flight counts the calls of run_cycle that have
\* not returned.
SolarAlphaBot_init(last_cycle_time) ==
    [running |-> FALSE, cycle_count |-> 0, pc |-> "built", found |-> <<>>,
     analyses |-> 0, error |-> "", signalled |-> FALSE, now |-> 0,
     starts |-> <<>>, last_cycle_time |-> last_cycle_time, in_flight |-> 0]

\* The components built from a configuration that names none of their keys.
ComponentsBuilt ==
    /\ trader = TradeExecutor_init("paper", {}, 1000)
    /\ analyzer = AIAnalyzer_init
    /\ scanner = MarketScanner_init
    /\ ledger = PublicLedger_init("csv")
    /\ bot = SolarAlphaBot_init(NoneTime)

-----------------------------------------------------------------------------
(* State machine *)

NoCall == [op |-> "none", profit |-> 0, raised |-> "", value |-> <<>>,
           amounts |-> <<>>]

Configs ==
    [ split : {1},
      crisis_orgs : OrgChoices,
      min_donation : MinDonationChoices,
      batch_donations : BOOLEAN,
      your_wallet : WalletChoices,
      network_fund : FundChoices ]

\* DonationEngine.__init__ over any configuration file.
Init ==
    /\ heap \in {<<s>> : s \in SplitChoices}
    /\ config \in Configs
    /\ donation_history = <<>>
    /\ last_call = NoCall
    /\ ncalls = 0
    /\ ComponentsBuilt

Distribute(profit) ==
    /\ ncalls < MaxCalls
    /\ LET r == distribute(config, heap[config.split], donation_history, profit)
       IN  /\ last_call' = [op |-> "distribute", profit |-> profit,
                            raised |-> r.raised, value |-> r.value,
                            amounts |-> r.amounts]
           /\ donation_history' = r.donation_history
    /\ ncalls' = ncalls + 1
    /\ UNCHANGED <<heap, config>>
    /\ UNCHANGED components

Next == \E profit \in ProfitChoices : Distribute(profit)

Spec == Init /\ [][Next]_vars

-----------------------------------------------------------------------------
(* The engine with an owner that edits the configuration it was given *)

\* The configuration create_default_config writes (no network_fund, no
\* min_donation and no batch_donations key, so the engine's defaults apply).
DefaultConfig ==
    [ split |-> 1,
      crisis_orgs |-> <<Org("A", 100)>>,
      min_donation |-> 100,
      batch_donations |-> TRUE,
      your_wallet |-> "0xYOU",
      network_fund |-> "" ]

ConfigInit ==
    /\ heap = <<Split(50, 30, 20)>>
    /\ config = DefaultConfig
    /\ donation_history = <<>>
    /\ last_call = NoCall
    /\ ncalls = 0
    /\ ComponentsBuilt

\* config['redistribution']['split'][key] = ... : the dictionary the
\* configuration refers to is changed in place.
UpdateSplitInPlace(s) ==
    /\ heap[config.split] # s
    /\ heap' = [heap EXCEPT ![config.split] = s]
    /\ UNCHANGED <<config, donation_history, last_call, ncalls>>
    /\ UNCHANGED components

\* config['redistribution']['split'] = {...} : a new dictionary takes the
\* place of the old one.
ReplaceSplit(s) ==
    /\ Len(heap) < MaxObjects
    /\ heap' = Append(heap, s)
    /\ config' = [config EXCEPT !.split = Len(heap) + 1]
    /\ UNCHANGED <<donation_history, last_call, ncalls>>
    /\ UNCHANGED components

ConfigNext ==
    \/ \E profit \in ProfitChoices : Distribute(profit)
    \/ \E s \in SplitChoices : UpdateSplitInPlace(s)
    \/ \E s \in SplitChoices : ReplaceSplit(s)

ConfigSpec == ConfigInit /\ [][ConfigNext]_vars

-----------------------------------------------------------------------------
(* The trade executor on its own *)

\* The keys of the configuration the executor reads, and bot.risk_tolerance.
TraderConfigs ==
    [ mode : {"paper", "real", "simulation"},
      risk_tolerance : {3, 7},
      max_daily_trades : {1, 3},
      max_position_size : MaxPositionChoices,
      max_total_exposure : {30, 300} ]

ExchangeChoices(mode) == IF mode = "real" THEN {{}, {"binance"}} ELSE {{}}

\* The redistribution engine of the same bot, unused here.
EngineAtRest ==
    /\ heap = <<Split(50, 30, 20)>>
    /\ donation_history = <<>>

\* The sizer reads max_position_size only.
SizerConfigs ==
    { c \in TraderConfigs :
        /\ c.mode = "paper" /\ c.risk_tolerance = 7
        /\ c.max_daily_trades = 3 /\ c.max_total_exposure = 300 }

SizerInit ==
    /\ EngineAtRest
    /\ config \in SizerConfigs
    /\ trader \in { TradeExecutor_init(config.mode, {}, pv) :
                        pv \in PortfolioChoices }
    /\ analyzer = AIAnalyzer_init
    /\ scanner = MarketScanner_init
    /\ ledger = PublicLedger_init("csv")
    /\ bot = SolarAlphaBot_init(NoneTime)
    /\ last_call = NoCall
    /\ ncalls = 0

CalculateTradeParameters(opportunity, analysis) ==
    /\ ncalls < MaxCalls
    /\ last_call' = [op |-> "calculate_trade_parameters",
                     opportunity |-> opportunity, analysis |-> analysis,
                     raised |-> "",
                     value |-> calculate_trade_parameters(config,
                                   trader.portfolio_value, opportunity,
                                   analysis)]
    /\ ncalls' = ncalls + 1
    /\ UNCHANGED <<heap, config, donation_history, components>>

SizerOpportunities ==
    { Opportunity("BTC-USD", "crypto", p) : p \in PriceChoices }
    \cup { Opportunity("PI:1:2", "prediction", p) : p \in PriceChoices }

SizerAnalyses ==
    { Analysis("BUY", c, s, FALSE) :
        c \in ConfidenceChoices, s \in PositionSizeChoices }

SizerNext ==
    \E opportunity \in SizerOpportunities, analysis \in SizerAnalyses :
        CalculateTradeParameters(opportunity, analysis)

SizerSpec == SizerInit /\ [][SizerNext]_vars

\* The executor as its caller finds it: any configuration, nothing traded.
TraderInit ==
    /\ EngineAtRest
    /\ config \in TraderConfigs
    /\ trader \in { TradeExecutor_init(config.mode, ex, 1000) :
                        ex \in ExchangeChoices(config.mode) }
    /\ analyzer = AIAnalyzer_init
    /\ scanner = MarketScanner_init
    /\ ledger = PublicLedger_init("csv")
    /\ bot = SolarAlphaBot_init(NoneTime)
    /\ last_call = NoCall
    /\ ncalls = 0

\* One call of TradeExecutor.execute; before is the executor it was given.
Execute(opportunity, analysis, order_ok) ==
    LET r == execute(config, trader, opportunity, analysis, order_ok)
    IN  /\ ncalls < MaxCalls
        /\ trader' = r.trader
        /\ last_call' = [op |-> "execute", opportunity |-> opportunity,
                         analysis |-> analysis, before |-> trader,
                         raised |-> "", value |-> r.value]
        /\ ncalls' = ncalls + 1
        /\ UNCHANGED <<heap, config, donation_history,
                       analyzer, scanner, ledger, bot>>

\* A call of execute during which the day changes, after can_trade has
\* read the date and before the trade is given its timestamp.
ExecuteOverMidnight(opportunity, analysis, order_ok) ==
    LET r == execute_at(config, trader, opportunity, analysis, order_ok,
                        trader.day + 1)
    IN  /\ ncalls < MaxCalls
        /\ trader.day < MaxDay
        /\ trader' = [r.trader EXCEPT !.day = @ + 1]
        /\ last_call' = [op |-> "execute", opportunity |-> opportunity,
                         analysis |-> analysis, before |-> trader,
                         raised |-> "", value |-> r.value]
        /\ ncalls' = ncalls + 1
        /\ UNCHANGED <<heap, config, donation_history,
                       analyzer, scanner, ledger, bot>>

\* datetime.now().date() moves on to the next day.
Midnight ==
    /\ trader.day < MaxDay
    /\ trader' = [trader EXCEPT !.day = @ + 1]
    /\ UNCHANGED <<heap, config, donation_history, last_call, ncalls,
                   analyzer, scanner, ledger, bot>>

\* One call of TradeExecutor.close_position.
ClosePosition(symbol, order_ok) ==
    /\ ncalls < MaxCalls
    /\ last_call' = [op |-> "close_position", symbol |-> symbol,
                     before |-> trader, raised |-> "",
                     value |-> close_position(trader, symbol, order_ok)]
    /\ ncalls' = ncalls + 1
    /\ UNCHANGED <<heap, config, donation_history, components>>

TraderOpportunities ==
    { Opportunity("BTC-USD", "crypto", 1),
      Opportunity("PI:1:2", "prediction", 1) }

TraderAnalyses ==
    { Analysis("BUY", 8, 10, FALSE), Analysis("SELL", 8, 10, FALSE),
      Analysis("BUY", 5, 10, FALSE), Analysis("BUY", 4, 10, FALSE),
      Analysis("HOLD", 8, 10, FALSE), Analysis("BUY", 8, 10, TRUE) }

\* Whether the exchange takes the order matters to execute_real_trade only.
OrderOutcomes ==
    IF trader.mode = "real" /\ trader.exchanges # {} THEN BOOLEAN ELSE {TRUE}

TraderNext ==
    \/ \E opportunity \in TraderOpportunities, analysis \in TraderAnalyses,
          order_ok \in OrderOutcomes :
            Execute(opportunity, analysis, order_ok)
    \/ \E opportunity \in TraderOpportunities, analysis \in TraderAnalyses,
          order_ok \in OrderOutcomes :
            ExecuteOverMidnight(opportunity, analysis, order_ok)
    \/ \E symbol \in Symbols, order_ok \in OrderOutcomes :
            ClosePosition(symbol, order_ok)
    \/ Midnight

TraderSpec == TraderInit /\ [][TraderNext]_vars

-----------------------------------------------------------------------------
(* PublicLedger (src/ledger/public_ledger.py)                              *)
(*                                                                         *)
(* Each store is the sequence of the rows appended to it; a row keeps the  *)
(* sheet (table, file) it went to and the entry.  Whether a store accepts  *)
(* a write is the environment's choice, given with every call.             *)

LedgerTypes == {"google_sheets", "sqlite", "csv"}

Sheets == {"trades", "cycles", "distributions", "errors"}

\* store_ok: the Google Sheets API or the SQLite connection accepts the
\* write; csv_ok: the CSV file can be opened and written.
LedgerEnvs == [store_ok : BOOLEAN, csv_ok : BOOLEAN]

Row(sheet, entry) == [sheet |-> sheet, entry |-> entry]

log_to_csv(l, file_prefix, data, env) ==
    IF env.csv_ok
    THEN [l EXCEPT !.csv = Append(@, Row(file_prefix, data))]
    ELSE l

log_to_google_sheets(l, sheet_name, data, env) ==
    IF env.store_ok
    THEN [l EXCEPT !.google_sheets = Append(@, Row(sheet_name, data))]
    ELSE log_to_csv([l EXCEPT !.ledger_type = "csv"], sheet_name, data, env)

\* The INSERT names the columns get_headers lists.  init_sqlite creates
\* 'trades' with those columns; 'cycles', 'distributions' and 'errors' have
\* other column names (cycle_id for CycleID, id for DistributionID, ...),
\* so the INSERT into them fails and is rolled back.
SqliteHasColumns(table_name) == table_name = "trades"

log_to_sqlite(l, table_name, data, env) ==
    IF env.store_ok /\ SqliteHasColumns(table_name)
    THEN [l EXCEPT !.sqlite = Append(@, Row(table_name, data))]
    ELSE l

\* The branch on self.ledger_type that every log operation ends with.
log_entry(l, sheet, log_entry_data, env) ==
    IF l.ledger_type = "google_sheets"
    THEN log_to_google_sheets(l, sheet, log_entry_data, env)
    ELSE IF l.ledger_type = "sqlite"
         THEN log_to_sqlite(l, sheet, log_entry_data, env)
         ELSE log_to_csv(l, sheet, log_entry_data, env)

log_trade(l, trade, env) == log_entry(l, "trades", trade, env)

log_cycle(l, cycle_data, env) == log_entry(l, "cycles", cycle_data, env)

log_redistribution(l, distribution, env) ==
    log_entry(l, "distributions", distribution, env)

log_error(l, cycle_id, error, env) ==
    log_entry(l, "errors", [CycleID |-> cycle_id, Error |-> error], env)

\* log_shutdown writes an 'events' row to the CSV store whatever the type.
log_shutdown(l, env) ==
    log_to_csv(l, "events", [Event |-> "SHUTDOWN"], env)

\* Every row of the ledger, whichever store holds it.
AllRows(l) == l.google_sheets \o l.sqlite \o l.csv

-----------------------------------------------------------------------------
(* AIAnalyzer (src/analyzer/ai_analyzer.py)                                *)
(*                                                                         *)
(* What the model file and the language model do is the environment's     *)
(* choice, given with every call: load_ok whether Llama(...) can load the  *)
(* model, response what self.model(prompt) does for the analysis prompt   *)
(* and ethics what it does for the ethical-check prompt.                   *)

ResponseKinds == {"raises", "no_choices", "not_json", "json_list", "json"}

\* The JSON object the model answers with, when it does.
Answers ==
    { Analysis(r, c, 5, FALSE) : r \in {"BUY", "SELL", "HOLD"},
                                 c \in {0, 5, 8} }

EthicsKinds == {"clear", "concerning", "raises"}

AnalyzerEnvs ==
    [ load_ok : BOOLEAN,
      response : [kind : ResponseKinds \ {"json"},
                  answer : {Analysis("HOLD", 0, 5, FALSE)}]
                 \cup [kind : {"json"}, answer : Answers],
      ethics : EthicsKinds ]

\* An opportunity is a dictionary (it answers .get) or an instance of the
\* scanner's Opportunity dataclass (it does not).
DictOpportunity(symbol) == [class |-> "dict", symbol |-> symbol]

\* The dictionary of the 'except Exception' handler of analyze.
FailedAnalysis ==
    [analysis |-> "Analysis failed", recommendation |-> "HOLD",
     confidence |-> 0, error |-> TRUE]

\* The dictionary of the 'except json.JSONDecodeError' handler.
UnparsedAnalysis ==
    [analysis |-> "Failed to parse AI response", recommendation |-> "HOLD",
     confidence |-> 0, error |-> TRUE]

\* initialize_model: TRUE when self.model is set after the call, FALSE
\* when loading raised.
initialize_model(an, env) == an.model # "none" \/ env.load_ok

\* An ethical check whose own failure counts as a pass.
ethical_check_fail_open(opportunity, analysis, env) ==
    env.ethics # "concerning"

\* ethical_check: the 'passed' entry of its result.
ethical_check(opportunity, analysis, env) == env.ethics = "clear"

analyze_body(an, opportunity, env) ==
    IF ~initialize_model(an, env) THEN Raise("Exception")
    ELSE IF opportunity.class # "dict" THEN Raise("AttributeError")
    ELSE IF env.response.kind = "raises" THEN Raise("Exception")
    ELSE IF env.response.kind = "no_choices" THEN Raise("KeyError")
    ELSE IF env.response.kind = "not_json" THEN Return(UnparsedAnalysis)
    ELSE IF env.response.kind = "json_list" THEN Raise("TypeError")
    ELSE LET analysis == env.response.answer
         IN  IF ~ethical_check(opportunity, analysis, env)
             THEN Return([analysis EXCEPT !.recommendation = "HOLD",
                                          !.confidence = 0,
                                          !.ethical_override = TRUE])
             ELSE Return(analysis)

analyze_unguarded(an, opportunity, env) ==
    LET r == analyze_body(an, opportunity, env)
    IN  [analyzer |-> IF initialize_model(an, env)
                      THEN [an EXCEPT !.model = "loaded"] ELSE an,
         raised |-> r.raised,
         value |-> r.value]

\* AIAnalyzer.analyze: the analyzer after the call, the exception that
\* leaves the call ("" when it returns) and the value returned.
analyze(an, opportunity, env) ==
    LET r == analyze_body(an, opportunity, env)
    IN  [analyzer |-> IF initialize_model(an, env)
                      THEN [an EXCEPT !.model = "loaded"] ELSE an,
         raised |-> "",
         value |-> IF r.raised # "" THEN FailedAnalysis ELSE r.value]

-----------------------------------------------------------------------------
(* MarketScanner (src/scanner/market_scanner.py)                           *)
(*                                                                         *)
(* The configuration names the allowed markets, the crypto symbols and,    *)
(* for each prediction market, what its entry under                        *)
(* data_sources.prediction_markets is: "absent", a dictionary with         *)
(* enabled true ("enabled") or false ("disabled"), or a bare boolean       *)
(* ("bool") as create_default_config writes it.  What the sources answer   *)
(* is the environment's choice: the crypto symbols yfinance has data for,  *)
(* and for each prediction market "down" (the request raises) or the       *)
(* markets of the response in order, each "good" (it yields an             *)
(* opportunity) or "bad" (evaluating it raises).                           *)

CryptoSymbols == {"BTC-USD", "ETH-USD"}

SourceEntries == {"absent", "bool", "enabled", "disabled"}

Feeds == { <<"down">>, <<>>, <<"good">>, <<"good", "good">>,
           <<"bad", "good">>, <<"good", "bad">> }

ScannedOpportunity(symbol, score) ==
    [class |-> "Opportunity", symbol |-> symbol, market_type |-> "prediction",
     potential_score |-> score]

PredictItMarkets ==
    <<ScannedOpportunity("PI:1:2", 90), ScannedOpportunity("PI:3:4", 60)>>

PolymarketMarkets ==
    <<ScannedOpportunity("PM:9", 70), ScannedOpportunity("PM:8", 50)>>

\* scan_crypto: get_crypto_data caches and returns a non-empty history and
\* gives None otherwise; 'not data' is True for None and raises ValueError
\* for a DataFrame, which the loop's handler turns into 'continue'; either
\* way the symbol adds no opportunity.
scan_crypto(sc, cfg, env) ==
    [scanner |-> [sc EXCEPT !.cache = @ \cup (cfg.crypto \cap env.crypto_data)],
     value |-> <<>>]

\* The opportunities a feed yields until a market of it raises.
RECURSIVE scan_feed(_, _, _)
scan_feed(feed, markets, i) ==
    IF i > Len(feed) \/ feed[i] # "good" THEN <<>>
    ELSE <<markets[i]>> \o scan_feed(feed, markets, i + 1)

scan_predictit(env) == scan_feed(env.predictit, PredictItMarkets, 1)

scan_polymarket(env) == scan_feed(env.polymarket, PolymarketMarkets, 1)

scan_prediction_markets(cfg, env) ==
    IF cfg.predictit = "bool" THEN Raise("AttributeError")
    ELSE LET first == IF cfg.predictit = "enabled"
                      THEN scan_predictit(env) ELSE <<>>
         IN  IF cfg.polymarket = "bool" THEN Raise("AttributeError")
             ELSE Return(first \o (IF cfg.polymarket = "enabled"
                                   THEN scan_polymarket(env) ELSE <<>>))

\* opportunities.sort(key=potential_score, reverse=True)
RECURSIVE sort_by_score(_)
sort_by_score(opps) ==
    IF opps = <<>> THEN <<>>
    ELSE LET i == CHOOSE k \in 1 .. Len(opps) :
                    \A j \in 1 .. Len(opps) :
                        \/ opps[k].potential_score > opps[j].potential_score
                        \/ (opps[k].potential_score = opps[j].potential_score
                            /\ k <= j)
         IN  <<opps[i]>> \o
             sort_by_score([j \in 1 .. Len(opps) - 1 |->
                              IF j < i THEN opps[j] ELSE opps[j + 1]])

\* MarketScanner.scan: the scanner after the call, the exception that
\* leaves the call ("" when it returns) and the list returned.
scan(sc, cfg, env) ==
    LET crypto == IF "crypto" \in cfg.allowed_markets
                  THEN scan_crypto(sc, cfg, env)
                  ELSE [scanner |-> sc, value |-> <<>>]
        prediction == IF "prediction" \in cfg.allowed_markets
                      THEN scan_prediction_markets(cfg, env)
                      ELSE Return(<<>>)
    IN  [scanner |-> crypto.scanner,
         raised |-> prediction.raised,
         value |-> IF prediction.raised # "" THEN <<>>
                   ELSE sort_by_score(crypto.value \o prediction.value)]

-----------------------------------------------------------------------------
(* The ledger on its own *)

\* PublicLedger.__init__ for each type of ledger, its stores reachable.
LedgerInit ==
    /\ EngineAtRest
    /\ config \in SizerConfigs
    /\ trader = TradeExecutor_init(config.mode, {}, 1000)
    /\ analyzer = AIAnalyzer_init
    /\ scanner = MarketScanner_init
    /\ ledger \in { PublicLedger_init(t) : t \in LedgerTypes }
    /\ bot = SolarAlphaBot_init(NoneTime)
    /\ last_call = NoCall
    /\ ncalls = 0

\* The log operations.  Each leaves in last_call the ledger it was called
\* on (before) and the sheet and entry it had to write; its 'except
\* Exception' lets nothing out.
LogTrade(trade, env) ==
    /\ ncalls < MaxCalls
    /\ ledger' = log_trade(ledger, trade, env)
    /\ last_call' = [op |-> "log_trade", sheet |-> "trades",
                     entry |-> trade, env |-> env, before |-> ledger,
                     raised |-> ""]
    /\ ncalls' = ncalls + 1
    /\ UNCHANGED <<heap, config, donation_history,
                   trader, analyzer, scanner, bot>>

LogCycle(cycle_data, env) ==
    /\ ncalls < MaxCalls
    /\ ledger' = log_cycle(ledger, cycle_data, env)
    /\ last_call' = [op |-> "log_cycle", sheet |-> "cycles",
                     entry |-> cycle_data, env |-> env, before |-> ledger,
                     raised |-> ""]
    /\ ncalls' = ncalls + 1
    /\ UNCHANGED <<heap, config, donation_history,
                   trader, analyzer, scanner, bot>>

LogRedistribution(distribution, env) ==
    /\ ncalls < MaxCalls
    /\ ledger' = log_redistribution(ledger, distribution, env)
    /\ last_call' = [op |-> "log_redistribution", sheet |-> "distributions",
                     entry |-> distribution, env |-> env, before |-> ledger,
                     raised |-> ""]
    /\ ncalls' = ncalls + 1
    /\ UNCHANGED <<heap, config, donation_history,
                   trader, analyzer, scanner, bot>>

LogError(cycle_id, error, env) ==
    /\ ncalls < MaxCalls
    /\ ledger' = log_error(ledger, cycle_id, error, env)
    /\ last_call' = [op |-> "log_error", sheet |-> "errors",
                     entry |-> [CycleID |-> cycle_id, Error |-> error], env |-> env, before |-> ledger,
                     raised |-> ""]
    /\ ncalls' = ncalls + 1
    /\ UNCHANGED <<heap, config, donation_history,
                   trader, analyzer, scanner, bot>>

LedgerNext ==
    \E env \in LedgerEnvs :
        \/ \E id \in 1 .. 2 : LogTrade([ID |-> id], env)
        \/ \E id \in 1 .. 2 : LogCycle([CycleID |-> id], env)
        \/ \E id \in 1 .. 2 : LogRedistribution([DistributionID |-> id], env)
        \/ \E id \in 1 .. 2 : LogError(id, "TypeError", env)

LedgerSpec == LedgerInit /\ [][LedgerNext]_vars

-----------------------------------------------------------------------------
(* The analyzer on its own *)

AnalyzerInit ==
    /\ EngineAtRest
    /\ config \in SizerConfigs
    /\ trader = TradeExecutor_init(config.mode, {}, 1000)
    /\ analyzer = AIAnalyzer_init
    /\ scanner = MarketScanner_init
    /\ ledger = PublicLedger_init("csv")
    /\ bot = SolarAlphaBot_init(NoneTime)
    /\ last_call = NoCall
    /\ ncalls = 0

\* One call of AIAnalyzer.analyze; before is the analyzer it was called on.
Analyze(opportunity, env) ==
    LET r == analyze(analyzer, opportunity, env)
    IN  /\ ncalls < MaxCalls
        /\ analyzer' = r.analyzer
        /\ last_call' = [op |-> "analyze", opportunity |-> opportunity,
                         env |-> env, before |-> analyzer,
                         raised |-> r.raised, value |-> r.value]
        /\ ncalls' = ncalls + 1
        /\ UNCHANGED <<heap, config, donation_history,
                       trader, scanner, ledger, bot>>

AnalyzerOpportunities ==
    { DictOpportunity("BTC-USD"), ScannedOpportunity("PI:1", 70) }

AnalyzerNext ==
    \E opportunity \in AnalyzerOpportunities, env \in AnalyzerEnvs :
        Analyze(opportunity, env)

AnalyzerSpec == AnalyzerInit /\ [][AnalyzerNext]_vars

-----------------------------------------------------------------------------
(* The scanner on its own *)

\* The keys of the configuration the scanner reads.
ScannerConfigs ==
    [ allowed_markets : {{"crypto"}, {"crypto", "prediction"}},
      crypto : {CryptoSymbols},
      predictit : SourceEntries,
      polymarket : SourceEntries ]

ScannerEnvs ==
    [ crypto_data : {{}, CryptoSymbols},
      predictit : Feeds,
      polymarket : {<<"down">>, <<"good", "good">>} ]

ScannerInit ==
    /\ EngineAtRest
    /\ config \in ScannerConfigs
    /\ trader = TradeExecutor_init("paper", {}, 1000)
    /\ analyzer = AIAnalyzer_init
    /\ scanner = MarketScanner_init
    /\ ledger = PublicLedger_init("csv")
    /\ bot = SolarAlphaBot_init(NoneTime)
    /\ last_call = NoCall
    /\ ncalls = 0

\* One call of MarketScanner.scan.
ScanOnce(env) ==
    LET r == scan(scanner, config, env)
    IN  /\ ncalls < MaxCalls
        /\ scanner' = r.scanner
        /\ last_call' = [op |-> "scan", env |-> env,
                         raised |-> r.raised, value |-> r.value]
        /\ ncalls' = ncalls + 1
        /\ UNCHANGED <<heap, config, donation_history,
                       trader, analyzer, ledger, bot>>

ScannerNext == \E env \in ScannerEnvs : ScanOnce(env)

ScannerSpec == ScannerInit /\ [][ScannerNext]_vars

-----------------------------------------------------------------------------
(* SolarAlphaBot (src/main.py): run(), run_cycle(), the shutdown signal    *)
(*                                                                         *)
(* __init__ reads the configuration both as attributes                     *)
(* (self.config.logging.level) and, in the components, as a dictionary     *)
(* (config.get('bot', {})); the states after construction are those of a   *)
(* configuration that answers both.  The clock counts units of 300         *)
(* seconds, the longest sleep of the main loop.  A cycle's identifier is   *)
(* its cycle_count.                                                        *)

MaxCycles == 2

MaxClock == 13

UnitsPerHour == 12

SleepCap == 1

Str(s) == [type |-> "str", str |-> s, num |-> 0]

Num(n) == [type |-> "num", str |-> "", num |-> n]

\* bot.risk_tolerance is 'medium' in the configuration that
\* create_default_config writes; a number is what line 112 compares with.
BotConfigs ==
    [ risk_tolerance : {Str("medium"), Num(7), Num(-1)},
      scan_interval_hours : {Num(1), Str("hourly")},
      ledger_type : LedgerTypes,
      allowed_markets : {{"crypto", "prediction"}},
      crypto : {CryptoSymbols},
      predictit : {"bool", "enabled"},
      polymarket : {"enabled"} ]

BotScanEnvs ==
    [ crypto_data : {{}, CryptoSymbols},
      predictit : {<<"down">>, <<"good">>, <<"good", "good">>},
      polymarket : {<<"down">>, <<"good", "good">>} ]

\* What the model file and the language model do during a cycle of the bot.
BotAnalyzerEnvs ==
    { e \in AnalyzerEnvs :
        /\ e.ethics = "clear"
        /\ e.response \in { [kind |-> "raises",
                              answer |-> Analysis("HOLD", 0, 5, FALSE)],
                             [kind |-> "json",
                              answer |-> Analysis("BUY", 8, 5, FALSE)] } }

BotInit ==
    /\ EngineAtRest
    /\ config \in BotConfigs
    /\ trader = TradeExecutor_init("paper", {}, 1000)
    /\ analyzer = AIAnalyzer_init
    /\ scanner = MarketScanner_init
    /\ ledger = PublicLedger_init(config.ledger_type)
    /\ bot \in { SolarAlphaBot_init(t) : t \in {NoneTime, 0} }
    /\ last_call = NoCall
    /\ ncalls = 0

InCycle(b) == b.pc \in {"scanning", "analyzing", "error"}

\* run() up to the initial run_cycle() of line 65.
Run ==
    /\ bot.pc = "built"
    /\ bot' = [bot EXCEPT !.running = TRUE, !.pc = "cycle"]
    /\ UNCHANGED <<heap, config, donation_history, last_call, ncalls,
                   trader, analyzer, scanner, ledger>>

\* run_cycle, lines 92-95: the cycle is counted and named.
BeginCycle ==
    /\ bot.pc = "cycle"
    /\ bot' = [bot EXCEPT !.cycle_count = @ + 1, !.pc = "scanning",
                          !.found = <<>>, !.analyses = 0, !.error = "",
                          !.starts = Append(@, bot.now),
                          !.in_flight = @ + 1]
    /\ UNCHANGED <<heap, config, donation_history, last_call, ncalls,
                   trader, analyzer, scanner, ledger>>

\* run_cycle, lines 98-104: the scan, which takes d units of time.
Scan(env, d) ==
    /\ bot.pc = "scanning"
    /\ bot.now + d <= MaxClock
    /\ LET r == scan(scanner, config, env)
       IN  /\ scanner' = r.scanner
           /\ bot' = [bot EXCEPT
                        !.now = @ + d,
                        !.found = r.value,
                        !.error = r.raised,
                        !.pc = IF r.raised # "" THEN "error"
                               ELSE IF r.value = <<>> THEN "loop"
                               ELSE "analyzing",
                        !.in_flight = IF r.raised = "" /\ r.value = <<>>
                                      THEN @ - 1 ELSE @]
    /\ UNCHANGED <<heap, config, donation_history, last_call, ncalls,
                   trader, analyzer, ledger>>

\* opportunities[:3]
Top3(opportunities) ==
    [i \in 1 .. Min(Len(opportunities), 3) |-> opportunities[i]]

\* Lines 112-114 for one analysis: the exception raised, "" when none.
\* The comparison raises for a threshold that is a string; the assignment
\* opp['analysis'] raises for an Opportunity instance.
keep_if_confident(cfg, opp, analysis) ==
    IF cfg.risk_tolerance.type = "str" THEN "TypeError"
    ELSE IF analysis.confidence > cfg.risk_tolerance.num
         THEN IF opp.class = "dict" THEN "" ELSE "TypeError"
         ELSE ""

\* run_cycle, lines 110-118: one turn of the analysis loop.  Every
\* opportunity is an Opportunity instance, so no turn adds to
\* analyzed_opportunities and the loop ends in the return of line 118 or
\* in the handler; lines 120-147 are not reached.
AnalyzeNext(env) ==
    /\ bot.pc = "analyzing"
    /\ LET opp == Top3(bot.found)[bot.analyses + 1]
           r == analyze(analyzer, opp, env)
           e == keep_if_confident(config, opp, r.value)
       IN  /\ analyzer' = r.analyzer
           /\ bot' = [bot EXCEPT
                        !.analyses = @ + 1,
                        !.error = e,
                        !.pc = IF e # "" THEN "error"
                               ELSE IF bot.analyses + 1 = Len(Top3(bot.found))
                                    THEN "loop"
                                    ELSE "analyzing",
                        !.in_flight =
                            IF e = "" /\ bot.analyses + 1 = Len(Top3(bot.found))
                            THEN @ - 1 ELSE @]
    /\ UNCHANGED <<heap, config, donation_history, last_call, ncalls,
                   trader, scanner, ledger>>

\* run_cycle, lines 149-151: the handler of the cycle.
CatchError(env) ==
    /\ bot.pc = "error"
    /\ ledger' = log_error(ledger, bot.cycle_count, bot.error, env)
    /\ last_call' = [op |-> "log_error", env |-> env, raised |-> ""]
    /\ bot' = [bot EXCEPT !.pc = "loop", !.in_flight = @ - 1]
    /\ UNCHANGED <<heap, config, donation_history, ncalls,
                   trader, analyzer, scanner>>

\* get_next_cycle_time: timedelta(hours=interval) raises TypeError for an
\* interval that is no number.
get_next_cycle_time(cfg, b) ==
    IF cfg.scan_interval_hours.type # "num" THEN Raise("TypeError")
    ELSE LET interval == cfg.scan_interval_hours.num * UnitsPerHour
             last_cycle == IF b.last_cycle_time # NoneTime
                           THEN b.last_cycle_time
                           ELSE b.now - interval
         IN  Return(last_cycle + interval)

\* run(), line 68: the test of the while loop.
TestRunning ==
    /\ bot.pc = "loop"
    /\ bot' = [bot EXCEPT !.pc = IF bot.running THEN "body" ELSE "shutdown"]
    /\ UNCHANGED <<heap, config, donation_history, last_call, ncalls,
                   trader, analyzer, scanner, ledger>>

\* run(), lines 71-76: it is not yet time, the loop sleeps.
Sleep ==
    /\ bot.pc = "body"
    /\ get_next_cycle_time(config, bot).raised = ""
    /\ LET sleep_time == get_next_cycle_time(config, bot).value - bot.now
       IN  /\ sleep_time > 0
           /\ bot.now + Min(sleep_time, SleepCap) <= MaxClock
           /\ bot' = [bot EXCEPT !.now = @ + Min(sleep_time, SleepCap),
                                 !.pc = "loop"]
    /\ UNCHANGED <<heap, config, donation_history, last_call, ncalls,
                   trader, analyzer, scanner, ledger>>

\* run(), lines 77-79: it is time, run_cycle() is called.
NextCycle ==
    /\ bot.pc = "body"
    /\ bot.cycle_count < MaxCycles
    /\ get_next_cycle_time(config, bot).raised = ""
    /\ ~(get_next_cycle_time(config, bot).value - bot.now > 0)
    /\ bot' = [bot EXCEPT !.pc = "cycle"]
    /\ UNCHANGED <<heap, config, donation_history, last_call, ncalls,
                   trader, analyzer, scanner, ledger>>

\* run(), lines 84-86: an exception of the loop's body is logged and the
\* loop retries after a sleep of 60 seconds, a fifth of the clock's unit:
\* d tells whether the clock shows the next unit afterwards.
RetryAfterError(d) ==
    /\ bot.pc = "body"
    /\ get_next_cycle_time(config, bot).raised # ""
    /\ bot.now + d <= MaxClock
    /\ bot' = [bot EXCEPT !.now = @ + d, !.pc = "loop"]
    /\ UNCHANGED <<heap, config, donation_history, last_call, ncalls,
                   trader, analyzer, scanner, ledger>>

\* A handler that runs a last cycle itself, whatever the main thread is at.
HandleShutdown_reentrant ==
    /\ ~bot.signalled
    /\ bot.pc \notin {"done", "crashed"}
    /\ bot' = [bot EXCEPT !.running = FALSE, !.signalled = TRUE,
                          !.pc = "cycle"]
    /\ UNCHANGED <<heap, config, donation_history, last_call, ncalls,
                   trader, analyzer, scanner, ledger>>

\* handle_shutdown, run by the interpreter between two steps of the main
\* thread once SIGINT or SIGTERM arrives.
HandleShutdown ==
    /\ ~bot.signalled
    /\ bot.pc \notin {"done", "crashed"}
    /\ bot' = [bot EXCEPT !.running = FALSE, !.signalled = TRUE]
    /\ UNCHANGED <<heap, config, donation_history, last_call, ncalls,
                   trader, analyzer, scanner, ledger>>

\* process_completed_trades: the exception that leaves the call, "" when
\* it returns.  The completed trades are instances of the Trade dataclass,
\* which has no method 'get', so the test trade.get('processed') of the
\* first turn of the loop raises; the statements after it (distribute,
\* log_trade, log_redistribution, the mark) are never reached.  Without a
\* completed trade the loop has no turn.
process_completed_trades(t) ==
    IF get_completed_trades(t) = <<>> THEN "" ELSE "AttributeError"

\* shutdown(): the remaining trades are processed, outside any handler, and
\* then the ledger logs the shutdown.  An exception leaves shutdown(), run()
\* and the program.
Shutdown(env) ==
    /\ bot.pc = "shutdown"
    /\ LET e == process_completed_trades(trader)
       IN  IF e # ""
           THEN /\ ledger' = ledger
                /\ last_call' = [op |-> "shutdown", env |-> env, raised |-> e]
                /\ bot' = [bot EXCEPT !.pc = "crashed", !.error = e]
           ELSE /\ ledger' = log_shutdown(ledger, env)
                /\ last_call' = [op |-> "log_shutdown", env |-> env,
                                 raised |-> ""]
                /\ bot' = [bot EXCEPT !.pc = "done"]
    /\ UNCHANGED <<heap, config, donation_history, ncalls,
                   trader, analyzer, scanner>>

BotNext ==
    \/ Run
    \/ BeginCycle
    \/ \E env \in BotScanEnvs, d \in {0, 1} : Scan(env, d)
    \/ \E env \in BotAnalyzerEnvs : AnalyzeNext(env)
    \/ \E env \in LedgerEnvs : CatchError(env)
    \/ TestRunning
    \/ Sleep
    \/ NextCycle
    \/ \E d \in {0, 1} : RetryAfterError(d)
    \/ HandleShutdown
    \/ \E env \in LedgerEnvs : Shutdown(env)

BotSpec == BotInit /\ [][BotNext]_vars

-----------------------------------------------------------------------------
(* The bot with trades in its executor                                     *)
(*                                                                         *)
(* run_cycle never gets as far as a trade, so the trades are made by calls *)
(* of bot.trader.execute; process_completed_trades and shutdown are the    *)
(* methods of the bot.                                                     *)

SettleInit ==
    /\ EngineAtRest
    /\ config \in { c \in TraderConfigs :
                      c.risk_tolerance = 7 /\ c.max_total_exposure = 300 }
    /\ trader \in { TradeExecutor_init(config.mode, ex, 1000) :
                        ex \in ExchangeChoices(config.mode) }
    /\ analyzer = AIAnalyzer_init
    /\ scanner = MarketScanner_init
    /\ ledger \in { PublicLedger_init(t) : t \in LedgerTypes }
    /\ bot = SolarAlphaBot_init(NoneTime)
    /\ last_call = NoCall
    /\ ncalls = 0

\* bot.trader.execute(opportunity, analysis)
Trade(opportunity, analysis, order_ok) ==
    LET r == execute(config, trader, opportunity, analysis, order_ok)
    IN  /\ bot.pc = "built"
        /\ ncalls < MaxCalls
        /\ trader' = r.trader
        /\ last_call' = [op |-> "execute", opportunity |-> opportunity,
                         analysis |-> analysis, before |-> trader,
                         raised |-> "", value |-> r.value]
        /\ ncalls' = ncalls + 1
        /\ UNCHANGED <<heap, config, donation_history,
                       analyzer, scanner, ledger, bot>>

\* bot.process_completed_trades(), as step 4 of a cycle calls it.
ProcessCompletedTrades ==
    /\ bot.pc = "built"
    /\ ncalls < MaxCalls
    /\ last_call' = [op |-> "process_completed_trades", before |-> trader,
                     raised |-> process_completed_trades(trader)]
    /\ ncalls' = ncalls + 1
    /\ UNCHANGED <<heap, config, donation_history, components>>

\* bot.shutdown() is called.
CallShutdown ==
    /\ bot.pc = "built"
    /\ bot' = [bot EXCEPT !.pc = "shutdown"]
    /\ UNCHANGED <<heap, config, donation_history, last_call, ncalls,
                   trader, analyzer, scanner, ledger>>

SettleNext ==
    \/ \E opportunity \in TraderOpportunities, analysis \in TraderAnalyses,
          order_ok \in OrderOutcomes :
            Trade(opportunity, analysis, order_ok)
    \/ ProcessCompletedTrades
    \/ CallShutdown
    \/ \E env \in LedgerEnvs : Shutdown(env)

SettleSpec == SettleInit /\ [][SettleNext]_vars

-----------------------------------------------------------------------------
(* Vocabulary of the properties *)

Returned == last_call.op = "distribute" /\ last_call.raised = ""

\* A call that got as far as computing and logging its bucket amounts.
Paid == Returned /\ last_call.profit > 0

split_now == heap[config.split]

SplitTotal == split_now.crisis + split_now.you + split_now.network

RECURSIVE SumAmounts(_, _)
SumAmounts(allocs, i) ==
    IF i > Len(allocs) THEN 0 ELSE allocs[i].amount + SumAmounts(allocs, i + 1)

\* Every allocation amount of a record: crisis sub-allocations, operator
\* and network.
AllocationSum(record) ==
    SumAmounts(record.distributions.crisis, 1)
      + SumAmounts(record.distributions.you, 1)
      + SumAmounts(record.distributions.network, 1)

BucketSum(amounts) == amounts["crisis"] + amounts["you"] + amounts["network"]

\* The crisis sub-allocations of the last record that go to organisation name.
AllocationsTo(name) ==
    { i \in 1..Len(last_call.value.distributions.crisis) :
        last_call.value.distributions.crisis[i].organization = name }

CrisisStatuses ==
    { last_call.value.distributions.crisis[i].status :
        i \in 1..Len(last_call.value.distributions.crisis) }

OrgTotal == SumPercent(config.crisis_orgs, 1)

-----------------------------------------------------------------------------
(* Properties *)

\* C1: in every record distribute returns for a positive profit, the
\* allocation amounts (crisis sub-allocations, operator, network) sum to at
\* most total_profit.
C1_AllocationsWithinProfit ==
    Paid => AllocationSum(last_call.value) <= last_call.value.total_profit

\* C2: distribute never raises, whatever the profit and the percentages.
C2_NeverRaises ==
    last_call.op = "distribute" => last_call.raised = ""

\* C3: for non-negative percentages summing to 100 the three bucket amounts
\* sum to at most the profit and fall short of it by less than 3 cents.
C3_BucketLossBelowThreeCents ==
    ( /\ Paid
      /\ SplitTotal = 100
      /\ split_now.crisis >= 0 /\ split_now.you >= 0 /\ split_now.network >= 0 )
    => /\ BucketSum(last_call.amounts) <= last_call.profit
       /\ last_call.profit - BucketSum(last_call.amounts) < 3

\* C4: when the percentages do not sum to 100 and distribute returns, each
\* bucket is profit * percentage / (sum of the percentages) truncated to
\* cents (so that equal percentages give three times profit/3 truncated).
C4_RescaledBuckets ==
    (Paid /\ SplitTotal # 100)
    => \A key \in {"crisis", "you", "network"} :
         last_call.amounts[key]
           = TruncDiv(last_call.profit * split_now[key], SplitTotal)

\* C5: for profit <= 0 distribute returns a record with no allocation at all
\* and total_profit equal to the profit given, and pays nothing out.
C5_NoPayoutWithoutProfit ==
    (last_call.op = "distribute" /\ last_call.profit <= 0)
    => /\ last_call.raised = ""
       /\ last_call.value.distributions = NoDistributions
       /\ last_call.value.total_profit = last_call.profit
       /\ last_call.amounts = <<>>

C5_Witness ==
    /\ Returned
    /\ last_call.profit < 0
    /\ config.crisis_orgs # <<>>
    /\ config.your_wallet # ""

\* C6: in a returned record every crisis organisation with a positive
\* percentage p whose share, crisis amount * p / (sum of all organisations'
\* percentages) truncated to cents, is positive has exactly one allocation,
\* of that share, and an organisation with percentage <= 0 has none.
C6_CrisisShares ==
    Paid =>
      \A i \in 1..Len(config.crisis_orgs) :
        LET org == config.crisis_orgs[i]
            to == AllocationsTo(org.name)
            share == TruncDiv(last_call.amounts["crisis"] * org.percentage,
                              OrgTotal)
        IN  IF org.percentage <= 0 THEN to = {}
            ELSE share > 0 =>
                   /\ Cardinality(to) = 1
                   /\ \A k \in to :
                        last_call.value.distributions.crisis[k].amount = share

\* C7: with batching enabled a (positive) crisis share below min_donation
\* stays in the record with status BATCHED; with batching disabled every
\* crisis sub-allocation is CONFIRMED or FAILED; none is ever left PENDING.
C7_SmallSharesBatched ==
    Paid =>
      /\ config.batch_donations =>
            \A i \in 1..Len(config.crisis_orgs) :
              LET org == config.crisis_orgs[i]
                  share == OrgAmount(last_call.amounts["crisis"], org.percentage,
                                     OrgTotal)
              IN  (org.percentage > 0 /\ 0 < share /\ share < config.min_donation)
                  => \E k \in AllocationsTo(org.name) :
                       last_call.value.distributions.crisis[k].status = "BATCHED"
      /\ ~config.batch_donations => CrisisStatuses \subseteq {"CONFIRMED", "FAILED"}
      /\ "PENDING" \notin CrisisStatuses

\* C8 as stated: whatever the wallets, a record for profit > 0 holds exactly
\* one operator and one network allocation, each SIMULATED and carrying its
\* bucket amount.
C8_AlwaysOperatorAndNetwork ==
    Paid =>
      LET d == last_call.value.distributions
      IN  /\ Len(d.you) = 1 /\ Len(d.network) = 1
          /\ d.you[1].status = "SIMULATED" /\ d.network[1].status = "SIMULATED"
          /\ d.you[1].amount = last_call.amounts["you"]
          /\ d.network[1].amount = last_call.amounts["network"]

\* C8 amended: a record for profit > 0 holds one operator allocation exactly
\* when your_wallet is configured and one network allocation exactly when
\* network_fund is configured (an empty entry otherwise); each allocation
\* present is SIMULATED and carries its bucket amount.
C8_OperatorAndNetworkWhenConfigured ==
    Paid =>
      LET d == last_call.value.distributions
      IN  /\ Len(d.you) = (IF config.your_wallet = "" THEN 0 ELSE 1)
          /\ Len(d.network) = (IF config.network_fund = "" THEN 0 ELSE 1)
          /\ \A k \in 1..Len(d.you) :
                d.you[k].status = "SIMULATED"
                  /\ d.you[k].amount = last_call.amounts["you"]
          /\ \A k \in 1..Len(d.network) :
                d.network[k].status = "SIMULATED"
                  /\ d.network[k].amount = last_call.amounts["network"]

C8_Witness ==
    /\ Paid
    /\ config.your_wallet # "" /\ config.network_fund # ""
    /\ last_call.amounts["you"] > 0 /\ last_call.amounts["network"] > 0
    /\ last_call.amounts["you"] # last_call.amounts["network"]

\* The split percentages a record's config_used shows when it is read.
SnapshotOf(record) == heap[record.config_used.split]

\* C9: changing the split percentages of the configuration leaves the
\* snapshot of every record created before unchanged.
C9_SnapshotFrozen ==
    [][ \A i \in 1..Len(donation_history) :
          SnapshotOf(donation_history[i])' = SnapshotOf(donation_history[i]) ]_vars

-----------------------------------------------------------------------------
(* Properties of the trade executor *)

\* The quantity that positionValue / price truncated toward zero to the
\* market's precision comes to, in millionths of a unit.
ExactQuantity(position_value, opportunity) ==
    LET unit == IF opportunity.market_type = "crypto" THEN 1 ELSE 10000
    IN  IF opportunity.current_price > 0
        THEN TruncDiv(position_value * 1000,
                      opportunity.current_price * unit) * unit
        ELSE 0

Sized == last_call.op = "calculate_trade_parameters"

\* C11: calculate_trade_parameters returns positionValue =
\* min(portfolioValue x suggestedFraction x confidence/10, maxPositionValue)
\* and quantity = positionValue / price truncated toward zero to 6 decimals
\* for crypto markets and 2 decimals otherwise, 0 when price <= 0; so
\* positionValue never exceeds maxPositionValue.  Stated for a portfolio
\* value that is not negative.
C11_SizerFollowsFormula ==
    Sized /\ trader.portfolio_value >= 0 =>
        LET a == last_call.analysis
            position_value == Min(trader.portfolio_value * a.position_size
                                      * a.confidence,
                                  config.max_position_size * 1000)
        IN  /\ last_call.value.position_value = position_value
            /\ last_call.value.position_value
                    <= config.max_position_size * 1000
            /\ last_call.value.quantity
                    = ExactQuantity(position_value, last_call.opportunity)

-----------------------------------------------------------------------------
(* Properties of the orchestrator *)

\* The number of error records of the ledger that carry the cycle
\* identifier and the error text.
ErrorRecords(l, cycle_id, error) ==
    Cardinality({ i \in 1 .. Len(AllRows(l)) :
                    /\ AllRows(l)[i].sheet = "errors"
                    /\ AllRows(l)[i].entry.CycleID = cycle_id
                    /\ AllRows(l)[i].entry.Error = error })

\* C12: whatever stage of run_cycle raises, the error is caught inside
\* run_cycle, exactly one error record with the cycle's identifier and the
\* error text is appended to the ledger, run_cycle returns normally and the
\* loop goes on to its next test with the running flag as it was.  Stated
\* for a handler that finds the ledger's store and the CSV files writable.
C12_ErrorRecordedOnce ==
    [][ (/\ bot.pc = "error" /\ bot'.pc # "error"
         /\ last_call'.env.store_ok /\ last_call'.env.csv_ok) =>
            /\ ErrorRecords(ledger', bot.cycle_count, bot.error)
                    = ErrorRecords(ledger, bot.cycle_count, bot.error) + 1
            /\ ErrorRecords(ledger', bot.cycle_count, bot.error) = 1
            /\ bot'.pc = "loop"
            /\ bot'.running = bot.running ]_vars

\* A cycle summary or an error record of the cycle is in the ledger.
TickLogged(l, cycle_id) ==
    \E i \in 1 .. Len(AllRows(l)) :
        /\ AllRows(l)[i].sheet \in {"cycles", "errors"}
        /\ AllRows(l)[i].entry.CycleID = cycle_id

\* C13: within a tick the stages follow the order SCANNING, ANALYZING,
\* SIZING_AND_EXECUTING, DISTRIBUTING, LOGGING, and every tick, also one
\* that finds no opportunity or passes none, has written a cycle summary or
\* an error record to the ledger when the orchestrator is idle again.
\* Stated for the ticks that raise no error.
C13_EveryTickLogs ==
    [][ /\ (bot.pc = "analyzing" => bot'.pc # "scanning")
        /\ (bot.pc \in {"scanning", "analyzing"} /\ ~InCycle(bot')) =>
                TickLogged(ledger', bot.cycle_count) ]_vars

-----------------------------------------------------------------------------
(* The gate in front of a recorded trade *)

\* The call of execute recorded in last_call appended a trade to the history.
TradeRecorded ==
    /\ last_call.op = "execute"
    /\ Len(trader.trade_history) = Len(last_call.before.trade_history) + 1

-----------------------------------------------------------------------------
(* One opportunity's failure and the rest of the cycle *)

\* C15: in a cycle that selected two opportunities or more, the analysis
\* loop is left only when every selected opportunity has been analyzed, and
\* it is not left through the handler of the cycle: an opportunity whose
\* analysis failed or which did not pass the gate is skipped, and no more.
C15_SkipDoesNotAbort ==
    [][ (/\ bot.pc = "analyzing"
         /\ bot'.pc # "analyzing"
         /\ Len(Top3(bot.found)) >= 2) =>
            /\ bot'.analyses = Len(Top3(bot.found))
            /\ bot'.pc # "error" ]_vars

-----------------------------------------------------------------------------
(* The schedule of the cycles *)

\* C16: the start times of two consecutive cycles of run() are at least
\* scan_interval_hours apart.
C16_CyclesAnIntervalApart ==
    \A i \in 1 .. Len(bot.starts) - 1 :
        bot.starts[i + 1] - bot.starts[i]
            >= config.scan_interval_hours.num * UnitsPerHour

-----------------------------------------------------------------------------
(* The shutdown signal *)

\* C17: once handle_shutdown has set running to false, the cycle in flight
\* goes on step by step as it would have, and no further cycle is started:
\* the count of cycles stays what it was when the signal was handled.
C17_NoCycleAfterSignal ==
    [][ bot.signalled =>
            /\ bot'.cycle_count = bot.cycle_count
            /\ (InCycle(bot) => bot'.pc \in {"scanning", "analyzing",
                                             "error", "loop"}) ]_vars

-----------------------------------------------------------------------------
(* The analyzer's failures *)

Analyzed == last_call.op = "analyze"

\* The model could not be loaded, the model call failed, or the response
\* was no parseable JSON.
AnalysisFailed ==
    \/ last_call.before.model = "none" /\ ~last_call.env.load_ok
    \/ last_call.env.response.kind \in {"raises", "no_choices", "not_json"}

\* C18: analyze lets no error out, and when the model cannot be loaded, the
\* model call fails or the response is no parseable JSON, the result it
\* returns has recommendation HOLD and confidence 0.
C18_AnalyzeDegradesToHold ==
    Analyzed =>
        /\ last_call.raised = ""
        /\ AnalysisFailed =>
                /\ last_call.value.recommendation = "HOLD"
                /\ last_call.value.confidence = 0

\* A loaded model answered a dictionary opportunity with text that is no
\* JSON, and analyze returned HOLD with confidence 0.
C18_Witness ==
    /\ Analyzed
    /\ last_call.before.model = "loaded"
    /\ last_call.opportunity.class = "dict"
    /\ last_call.env.response.kind = "not_json"
    /\ last_call.raised = ""
    /\ last_call.value.recommendation = "HOLD"
    /\ last_call.value.confidence = 0

-----------------------------------------------------------------------------
(* The ledger's fallback *)

LogOps == {"log_trade", "log_cycle", "log_redistribution", "log_error"}

\* The store a ledger of the given type writes to first.
StoreOf(l, ledger_type) ==
    IF ledger_type = "google_sheets" THEN l.google_sheets
    ELSE IF ledger_type = "sqlite" THEN l.sqlite
    ELSE l.csv

\* The log operation of last_call left the primary store as it was.
PrimaryWriteFailed ==
    StoreOf(ledger, last_call.before.ledger_type)
        = StoreOf(last_call.before, last_call.before.ledger_type)

\* C19: for every type of ledger and every log operation, when the write
\* to the primary store fails the entry is written to the CSV store, and
\* the operation does not raise.  Stated for CSV files that can be
\* written.
C19_FailedWriteFallsBackToCsv ==
    (/\ last_call.op \in LogOps
     /\ last_call.env.csv_ok
     /\ PrimaryWriteFailed) =>
        /\ last_call.raised = ""
        /\ ledger.csv = Append(last_call.before.csv,
                               Row(last_call.sheet, last_call.entry))

-----------------------------------------------------------------------------
(* The scanner's failures *)

\* Every opportunity of the sequence opps is in the list scan returned.
AllReturned(opps) ==
    \A i \in 1 .. Len(opps) :
        \E j \in 1 .. Len(last_call.value) : last_call.value[j] = opps[i]

\* C20: scan lets no failure of a source out, a malformed entry of the
\* configuration included, and returns the opportunities of the sources
\* that are enabled and answer.
C20_ScanSwallowsSourceFailures ==
    last_call.op = "scan" =>
        /\ last_call.raised = ""
        /\ ("prediction" \in config.allowed_markets
            /\ config.predictit = "enabled") =>
                AllReturned(scan_predictit(last_call.env))
        /\ ("prediction" \in config.allowed_markets
            /\ config.polymarket = "enabled") =>
                AllReturned(scan_polymarket(last_call.env))

-----------------------------------------------------------------------------
(* Trades and the ledger *)

\* The trade is in the ledger's trade records.
TradeLogged(l, trade) ==
    \E i \in 1 .. Len(AllRows(l)) :
        /\ AllRows(l)[i].sheet = "trades"
        /\ AllRows(l)[i].entry = trade

\* C21: when shutdown is over, every executed trade of the history is in
\* the ledger's trade records, whatever its profit.  Stated for a ledger
\* whose stores can be written.
C21_ExecutedTradesLogged ==
    [][ (/\ bot.pc = "shutdown" /\ bot'.pc # "shutdown"
         /\ last_call'.env.store_ok /\ last_call'.env.csv_ok) =>
            \A i \in 1 .. Len(trader'.trade_history) :
                trader'.trade_history[i].status = "EXECUTED" =>
                    TradeLogged(ledger', trader'.trade_history[i]) ]_vars

\* The ledger holds the record of the shutdown.
ShutdownLogged(l) ==
    \E i \in 1 .. Len(l.csv) : l.csv[i].sheet = "events"

\* C22: shutdown's processing of the remaining trades is never fatal: the
\* step that ends shutdown does not end in an uncaught exception, and it
\* has made the final update of the ledger (log_shutdown), which is in the
\* CSV store when that store can be written.
C22_ShutdownNeverFatal ==
    [][ (bot.pc = "shutdown" /\ bot'.pc # "shutdown") =>
            /\ bot'.pc = "done"
            /\ last_call'.raised = ""
            /\ last_call'.op = "log_shutdown"
            /\ last_call'.env.csv_ok => ShutdownLogged(ledger') ]_vars

-----------------------------------------------------------------------------
(* One cycle at a time *)

\* C23: at most one call of run_cycle is in flight, whatever the order of
\* the initial cycle, the cycles of the loop, the loop's retry after an
\* error and the shutdown signal.
C23_OneCycleInFlight == bot.in_flight <= 1

\* The second cycle is in flight and the shutdown signal has been handled.
C23_Witness ==
    /\ bot.in_flight = 1
    /\ bot.cycle_count = 2
    /\ bot.pc = "analyzing"
    /\ bot.signalled

-----------------------------------------------------------------------------
(* The executor's books *)

\* The trade the call of execute recorded in last_call ended up with, if it
\* got as far as a trade.
ExecuteEndedExecuted ==
    /\ TradeRecorded
    /\ trader.trade_history[Len(trader.trade_history)].status = "EXECUTED"

\* C25: a call of execute appends to the trade history and changes the
\* position map only when the trade ends EXECUTED; otherwise, a trade that
\* ends CANCELLED included, history and positions stay as they were and
\* the call returns no trade.
C25_CancelledTradeLeavesNoTrace ==
    (last_call.op = "execute" /\ ~ExecuteEndedExecuted) =>
        /\ trader.trade_history = last_call.before.trade_history
        /\ trader.positions = last_call.before.positions
        /\ last_call.value = None

\* The quantity a trade adds to the position of its symbol when it counts:
\* nothing unless it is EXECUTED, its quantity for a BUY and the negative
\* of it for a SELL.
SignedQuantity(trade) ==
    IF trade.status # "EXECUTED" THEN 0
    ELSE IF trade.type = "BUY" THEN trade.quantity ELSE 0 - trade.quantity

RECURSIVE NetExecuted(_, _, _)
NetExecuted(history, symbol, i) ==
    IF i > Len(history) THEN 0
    ELSE (IF history[i].symbol = symbol THEN SignedQuantity(history[i]) ELSE 0)
         + NetExecuted(history, symbol, i + 1)

\* The call recorded in last_call is a close_position that returned an
\* executed closing trade.
ClosedExecuted ==
    /\ last_call.op = "close_position"
    /\ last_call.value # None
    /\ last_call.value.status = "EXECUTED"

\* C26: the position of every symbol is the sum of the quantities of its
\* EXECUTED BUY trades minus that of its EXECUTED SELL trades, the closing
\* trade just executed included; after close_position has returned an
\* executed closing trade the position of the symbol is 0.  Stated for a
\* history in which every trade is EXECUTED.
C26_PositionsAreNetOfTrades ==
    (\A i \in 1 .. Len(trader.trade_history) :
        trader.trade_history[i].status = "EXECUTED") =>
        /\ \A s \in Symbols :
              PositionOf(trader.positions, s)
                = NetExecuted(trader.trade_history, s, 1)
                  + (IF ClosedExecuted /\ last_call.symbol = s
                     THEN SignedQuantity(last_call.value) ELSE 0)
        /\ ClosedExecuted =>
              PositionOf(trader.positions, last_call.symbol) = 0

-----------------------------------------------------------------------------
(* The executor's caps *)

\* The trades of the history that are EXECUTED and stamped with the day.
ExecutedOn(history, day) ==
    { i \in 1 .. Len(history) :
        history[i].status = "EXECUTED" /\ history[i].day = day }

\* C27: on no calendar day does the history hold more EXECUTED trades than
\* max_daily_trades.
C27_DailyTradesWithinCap ==
    \A i \in 1 .. Len(trader.trade_history) :
        Cardinality(ExecutedOn(trader.trade_history,
                               trader.trade_history[i].day))
            <= config.max_daily_trades

\* The day's cap was reached and execute turned down a trade that passes
\* every other test of can_trade.
C27_Witness ==
    /\ last_call.op = "execute"
    /\ last_call.value = None
    /\ Cardinality(today_trades(last_call.before)) = config.max_daily_trades
    /\ can_trade_no_daily_limit(config, last_call.before,
                                last_call.opportunity, last_call.analysis)
    /\ Len(trader.trade_history) = config.max_daily_trades

\* C28: the absolute positions, summed over all symbols, never exceed
\* max_total_exposure.
C28_ExposureWithinCap ==
    SumAbs(trader.positions, DOMAIN trader.positions)
        <= config.max_total_exposure * 1000000

-----------------------------------------------------------------------------
(* The ethical override *)

\* The call got as far as the ethical check: the model is there, the
\* opportunity is a dictionary and the response is a JSON object.
EthicalCheckReached ==
    /\ Analyzed
    /\ initialize_model(last_call.before, last_call.env)
    /\ last_call.opportunity.class = "dict"
    /\ last_call.env.response.kind = "json"

EthicalCheckFailed ==
    /\ EthicalCheckReached
    /\ last_call.env.ethics \in {"concerning", "raises"}

\* C29: when the ethical check finds a concerning phrase or raises, analyze
\* returns HOLD with confidence 0 and ethical_override true whatever the
\* model answered, and execute turns that analysis down for every
\* opportunity.
C29_FailedEthicsForcesHold ==
    EthicalCheckFailed =>
        /\ last_call.raised = ""
        /\ last_call.value.recommendation = "HOLD"
        /\ last_call.value.confidence = 0
        /\ last_call.value.ethical_override
        /\ \A o \in TraderOpportunities, order_ok \in OrderOutcomes :
              /\ ~can_trade(config, trader, o, last_call.value)
              /\ execute(config, trader, o, last_call.value,
                         order_ok).value = None

\* The model answered BUY with confidence 8, the ethical check raised, and
\* analyze returned the overridden analysis.
C29_Witness ==
    /\ EthicalCheckFailed
    /\ last_call.env.ethics = "raises"
    /\ last_call.env.response.answer.recommendation = "BUY"
    /\ last_call.env.response.answer.confidence = 8
    /\ last_call.value.recommendation = "HOLD"
    /\ last_call.value.ethical_override

-----------------------------------------------------------------------------
(* The crisis bucket *)

\* C30: for a crisis amount >= 0 the crisis sub-allocations that
\* distribute_to_crisis_orgs returns sum to at most that amount, whatever
\* the signs of the organisations' percentages.
C30_CrisisWithinBucket ==
    (Paid /\ last_call.amounts["crisis"] >= 0)
    => SumAmounts(last_call.value.distributions.crisis, 1)
         <= last_call.amounts["crisis"]

====
